---- MODULE Spec2Model ----
(***************************************************************************)
(* A model of the job-search API (src/api): the /search-jobs request       *)
(* pipeline of main.py, the semantic scorer of LLM_filtering.py, the       *)
(* keyword fallback scorer, and the three providers' normalizers.          *)
(*                                                                         *)
(* Python values are modelled as follows.                                  *)
(*   str    a sequence of one-character strings, <<"p","y">> for "py"      *)
(*   None   the one-element sequence PyNone (no str has a long element)    *)
(*   dict   a record; a missing key is a field outside the DOMAIN          *)
(*   float  an integer number of 1/Scale units; NaN is a value of its own  *)
(***************************************************************************)
EXTENDS Integers, Sequences, FiniteSets, TLC

(***************************************************************************)
(* Python strings                                                          *)
(***************************************************************************)
PyNone == <<"None">>

UpperCase ==
    <<"A","B","C","D","E","F","G","H","I","J","K","L","M",
      "N","O","P","Q","R","S","T","U","V","W","X","Y","Z">>

LowerCase ==
    <<"a","b","c","d","e","f","g","h","i","j","k","l","m",
      "n","o","p","q","r","s","t","u","v","w","x","y","z">>

LowerChar(c) ==
    IF \E i \in 1..26 : UpperCase[i] = c
    THEN LowerCase[CHOOSE i \in 1..26 : UpperCase[i] = c]
    ELSE c

\* str.lower()
Lower(s) == [i \in 1..Len(s) |-> LowerChar(s[i])]

IsSpace(c) == c \in {" ", "\n", "\t"}

\* k in h, for two strs
Contains(h, k) ==
    \E i \in 0..(Len(h) - Len(k)) : SubSeq(h, i + 1, i + Len(k)) = k

\* str.strip()
Strip(s) ==
    LET keep == {i \in 1..Len(s) : ~IsSpace(s[i])}
    IN  IF keep = {} THEN <<>>
        ELSE SubSeq(s, CHOOSE i \in keep : \A j \in keep : i <= j,
                       CHOOSE i \in keep : \A j \in keep : j <= i)

\* the index of the first character of s, from index from on, that is in seps;
\* Len(s) + 1 when there is none
RECURSIVE NextSep(_, _, _)
NextSep(s, from, seps) ==
    IF from > Len(s) THEN Len(s) + 1
    ELSE IF s[from] \in seps THEN from
    ELSE NextSep(s, from + 1, seps)

\* str.split(","): the pieces between the commas, empty pieces included
RECURSIVE SplitFrom(_, _, _)
SplitFrom(s, from, seps) ==
    LET e == NextSep(s, from, seps)
    IN  IF e > Len(s) THEN <<SubSeq(s, from, Len(s))>>
        ELSE <<SubSeq(s, from, e - 1)>> \o SplitFrom(s, e + 1, seps)

SplitComma(s) == SplitFrom(s, 1, {","})

\* str.split(): the maximal runs of non-whitespace characters
SplitWhitespace(s) ==
    LET pieces == SplitFrom(s, 1, {" ", "\n", "\t"})
    IN  SelectSeq(pieces, LAMBDA p : p # <<>>)

\* a value in a condition: None and "" are false
Truthy(v) == v # PyNone /\ v # <<>>

(***************************************************************************)
(* Python dicts                                                            *)
(***************************************************************************)
\* d.get(k, default)
Get(d, k, default) == IF k \in DOMAIN d THEN d[k] ELSE default

\* d[k] = v
Put(d, k, v) == [f \in (DOMAIN d) \cup {k} |-> IF f = k THEN v ELSE d[f]]

(***************************************************************************)
(* Python floats                                                           *)
(***************************************************************************)
Scale == 6 * 100

\* float("nan"): json.loads accepts the token NaN, float() the string "nan"
NaN == -999999

\* a JSON value float() cannot coerce (null, a list, "high")
NotCoercible == -999998

\* x < y and x >= y on floats: every comparison with NaN is False
PyLt(x, y) == x # NaN /\ y # NaN /\ x < y

PyGe(x, y) == x # NaN /\ y # NaN /\ x >= y

Min(a, b) == IF a <= b THEN a ELSE b

(***************************************************************************)
(* sorted(xs, key=lambda x: x.get("relevance_score", 0), reverse=...) as   *)
(* CPython computes it for a list of fewer than 64 elements: the list is   *)
(* reversed when reverse is set, the leading run is found (and reversed in *)
(* place when strictly descending), the rest is inserted by binary         *)
(* insertion, and the list is reversed back.  The only comparison is       *)
(* key(x) < key(y).                                                        *)
(***************************************************************************)
\* the key of both scorers' sorts: x.get("relevance_score", 0)
RelevanceKey(job) == Get(job, "relevance_score", 0)

Reverse(s) == [i \in 1..Len(s) |-> s[Len(s) + 1 - i]]

RECURSIVE RunEnd(_, _, _)
RunEnd(s, descending, i) ==
    IF i > Len(s) THEN Len(s)
    ELSE IF PyLt(RelevanceKey(s[i]), RelevanceKey(s[i - 1])) = descending
         THEN RunEnd(s, descending, i + 1)
         ELSE i - 1

\* the list with its leading run made ascending, and the run's length
CountRun(s) ==
    IF Len(s) <= 1 THEN [list |-> s, n |-> Len(s)]
    ELSE LET descending == PyLt(RelevanceKey(s[2]), RelevanceKey(s[1]))
             n == RunEnd(s, descending, 3)
         IN  [list |-> IF descending
                       THEN Reverse(SubSeq(s, 1, n)) \o SubSeq(s, n + 1, Len(s))
                       ELSE s,
              n |-> n]

RECURSIVE BinarySearch(_, _, _, _)
BinarySearch(s, pivot, l, r) ==
    LET p == l + ((r - l) \div 2)
        l2 == IF PyLt(RelevanceKey(pivot), RelevanceKey(s[p])) THEN l ELSE p + 1
        r2 == IF PyLt(RelevanceKey(pivot), RelevanceKey(s[p])) THEN p ELSE r
    IN  IF l2 < r2 THEN BinarySearch(s, pivot, l2, r2) ELSE l2

RECURSIVE BinarySort(_, _)
BinarySort(s, start) ==
    IF start > Len(s) THEN s
    ELSE LET pivot == s[start]
             at == BinarySearch(s, pivot, 1, start)
             moved == SubSeq(s, 1, at - 1) \o <<pivot>> \o SubSeq(s, at, start - 1)
                      \o SubSeq(s, start + 1, Len(s))
         IN  BinarySort(moved, start + 1)

SortAscending(s) ==
    IF Len(s) < 2 THEN s
    ELSE LET run == CountRun(s)
         IN  BinarySort(run.list, run.n + 1)

PySorted(s, reverse) ==
    IF reverse THEN Reverse(SortAscending(Reverse(s)))
    ELSE SortAscending(s)

(***************************************************************************)
(* Program constants                                                       *)
(***************************************************************************)
\* main.py: scrape_jobs(max_jobs=10) for LinkedIn and Google Jobs
ProviderMaxJobs == 10

\* main.py: Indeed is consulted when len(all_jobs) < 8
IndeedThreshold == 8

\* main.py: Indeed is asked for max_jobs=3
IndeedMaxJobs == 3

\* main.py: at most the first 15 jobs are sent to the semantic scorer
ScoringBudget == 15

\* main.py: max_jobs=20 for both scorers
MaxResults == 20

\* main.py: min_score=0.3
MinScore == (3 * Scale) \div 10

\* main.py: the default score of keyword_score_jobs without keywords, 0.5
\* a score of nothing
NoScore == Scale - Scale

NeutralScore == Scale \div 2

\* main.py: random.uniform(0, 0.05)
\* a random factor of up to 0.1
WideJitter == Scale \div 10

MaxJitter == Scale \div 20

(***************************************************************************)
(* The semantic scorer (LLM_filtering.py).  A response of the text         *)
(* generation service is [raises, text, members]: whether the call raised, *)
(* the text it returned, and the members of the JSON object the text       *)
(* holds.  In the text, "j" stands for the members of a JSON object, so    *)
(* that "{j}" and "{}" are the well-formed objects.                        *)
(***************************************************************************)
EmptyDict == [f \in {} |-> 0]

FirstIndex(text, c) ==
    IF \E i \in 1..Len(text) : text[i] = c
    THEN CHOOSE i \in 1..Len(text) :
            text[i] = c /\ \A j \in 1..(i - 1) : text[j] # c
    ELSE 0

LastIndex(text, c) ==
    IF \E i \in 1..Len(text) : text[i] = c
    THEN CHOOSE i \in 1..Len(text) :
            text[i] = c /\ \A j \in (i + 1)..Len(text) : text[j] # c
    ELSE 0

\* the whole text taken for the object
ExtractWholeText(text) == [raised |-> FALSE, str |-> text]

\* _extract_json_from_text: text[find("{") : rfind("}") + 1], or ValueError
ExtractJsonFromText(text) ==
    LET start_idx == FirstIndex(text, "{") - 1
        end_idx == LastIndex(text, "}")
    IN  IF start_idx >= 0 /\ end_idx > start_idx
        THEN [raised |-> FALSE, str |-> SubSeq(text, start_idx + 1, end_idx)]
        ELSE [raised |-> TRUE, str |-> <<>>]

\* json.loads on the extracted substring
JsonLoads(str, members) ==
    IF str = <<"{", "j", "}">> THEN [raised |-> FALSE, result |-> members]
    ELSE IF str = <<"{", "}">> THEN [raised |-> FALSE, result |-> EmptyDict]
    ELSE [raised |-> TRUE, result |-> EmptyDict]

\* float(v)
Float(v) == [raised |-> v = NotCoercible, value |-> v]

ParseErrorReasoning == [kind |-> "Error parsing response"]

EvaluationErrorReasoning == [kind |-> "Error during evaluation"]

DefaultReasoning == [kind |-> "No reasoning provided"]

\* _evaluate_job_relevance: the call's exception propagates; a failure to
\* parse the response is answered with (0.0, "Error parsing response: ...")
EvaluateJobRelevance(job, criteria, resp) ==
    IF resp.raises
    THEN [raised |-> TRUE, score |-> 0, reasoning |-> EvaluationErrorReasoning]
    ELSE LET json_str == ExtractJsonFromText(resp.text)
             loaded == JsonLoads(json_str.str, resp.members)
             overall_score == Get(loaded.result, "overall_score", 0)
             reasoning == Get(loaded.result, "reasoning", DefaultReasoning)
             score == Float(overall_score)
         IN  IF json_str.raised \/ loaded.raised \/ score.raised
             THEN [raised |-> FALSE, score |-> 0,
                   reasoning |-> ParseErrorReasoning]
             ELSE [raised |-> FALSE, score |-> score.value,
                   reasoning |-> reasoning]

\* the loop of filter_relevant_jobs over one job, whose evaluation gave r:
\* the job as it is appended to scored_jobs
AnnotateJob(job, r) ==
    IF r.raised
    THEN Put(Put(job, "relevance_score", 0),
             "relevance_reasoning", EvaluationErrorReasoning)
    ELSE Put(Put(job, "relevance_score", r.score),
             "relevance_reasoning", r.reasoning)

\* one _evaluate_job_relevance call a job
Evaluations(jobs, criteria, resps) ==
    [i \in 1..Len(jobs) |-> EvaluateJobRelevance(jobs[i], criteria, resps[i])]

\* scored_jobs after a loop that drops the job whose evaluation raised
ScoredJobsWithoutFailed(jobs, evaluations) ==
    LET kept == SelectSeq([i \in 1..Len(jobs) |-> i],
                          LAMBDA i : ~evaluations[i].raised)
    IN  [k \in 1..Len(kept) |-> AnnotateJob(jobs[kept[k]], evaluations[kept[k]])]

\* scored_jobs after the loop
ScoredJobs(jobs, evaluations) ==
    [i \in 1..Len(jobs) |-> AnnotateJob(jobs[i], evaluations[i])]

\* the caller's list after the loop: a job whose evaluation raised is
\* annotated in place, the others are copied before they are annotated
MutatedInput(jobs, evaluations) ==
    [i \in 1..Len(jobs) |->
        IF evaluations[i].raised THEN AnnotateJob(jobs[i], evaluations[i])
        ELSE jobs[i]]

SortByRelevance(jobs) == PySorted(jobs, TRUE)

\* a filter that lets every job through
FilterNothing(jobs, min_score) == jobs

FilterByMinScore(jobs, min_score) ==
    SelectSeq(jobs, LAMBDA job : PyGe(RelevanceKey(job), min_score))

\* xs[:n]
Take(xs, n) == SubSeq(xs, 1, Min(n, Len(xs)))

\* the end of filter_relevant_jobs: scored_jobs sorted, filtered and cut
RelevantJobs(scored, min_score, max_jobs) ==
    Take(FilterByMinScore(SortByRelevance(scored), min_score), max_jobs)

\* filter_relevant_jobs(jobs, search_criteria, min_score, max_jobs)
FilterRelevantJobs(jobs, criteria, min_score, max_jobs, resps) ==
    IF jobs = <<>> THEN <<>>
    ELSE RelevantJobs(ScoredJobs(jobs, Evaluations(jobs, criteria, resps)),
                      min_score, max_jobs)

(***************************************************************************)
(* The keyword fallback scorer (main.py)                                   *)
(***************************************************************************)
NotSpecified == <<"N","o","t"," ","s","p","e","c","i","f","i","e","d">>

\* the keyword list built from the search criteria
Keywords(criteria) ==
    LET skills ==
            IF Truthy(criteria.skills)
            THEN LET kept == SelectSeq(SplitComma(criteria.skills),
                                       LAMBDA k : Strip(k) # <<>>)
                 IN  [i \in 1..Len(kept) |-> Strip(Lower(kept[i]))]
            ELSE <<>>
        position ==
            IF Truthy(criteria.position)
            THEN LET kept == SplitWhitespace(criteria.position)
                 IN  [i \in 1..Len(kept) |-> Strip(Lower(kept[i]))]
            ELSE <<>>
        nature ==
            IF Truthy(criteria.jobNature) /\ criteria.jobNature # NotSpecified
            THEN <<Lower(criteria.jobNature)>>
            ELSE <<>>
        location ==
            IF Truthy(criteria.location) /\ criteria.location # NotSpecified
            THEN <<Lower(criteria.location)>>
            ELSE <<>>
    IN  skills \o position \o nature \o location

JobTextFields == <<"job_title", "company", "location", "jobNature", "description">>

\* str + str raises TypeError when one operand is None
JobTextRaises(job) ==
    \E i \in 1..Len(JobTextFields) : Get(job, JobTextFields[i], <<>>) = PyNone

JobText(job) ==
    Lower(Get(job, "job_title", <<>>) \o <<" ">> \o
          Get(job, "company", <<>>) \o <<" ">> \o
          Get(job, "location", <<>>) \o <<" ">> \o
          Get(job, "jobNature", <<>>) \o <<" ">> \o
          Get(job, "description", <<>>))

MatchingKeywords(keywords, job_text) ==
    Cardinality({i \in 1..Len(keywords) : Contains(job_text, keywords[i])})

\* a score that falls as the matches rise
KeywordBaseScoreOfMisses(keywords, job_text) ==
    IF keywords # <<>>
    THEN Min(Scale, ((Len(keywords) - MatchingKeywords(keywords, job_text)) * Scale)
                        \div Len(keywords))
    ELSE NeutralScore

\* the score before the random factor is added
KeywordBaseScore(keywords, job_text) ==
    IF keywords # <<>>
    THEN Min(Scale, (MatchingKeywords(keywords, job_text) * Scale) \div Len(keywords))
    ELSE NeutralScore

\* a reasoning that reports the list's size in place of the matches
KeywordReasoningOfTotal(matching, total) ==
    [kind |-> "Keyword matching found", matching |-> total, total |-> total]

KeywordReasoning(matching, total) ==
    [kind |-> "Keyword matching found", matching |-> matching, total |-> total]

KeywordScoreOneJob(job, keywords, jitter) ==
    LET job_text == JobText(job)
        score == Min(Scale, KeywordBaseScore(keywords, job_text) + jitter)
    IN  Put(Put(job, "relevance_score", score),
            "relevance_reasoning",
            KeywordReasoning(MatchingKeywords(keywords, job_text), Len(keywords)))

\* keyword_score_jobs(jobs, search_criteria, max_jobs); jitters[i] is the
\* value random.uniform(0, 0.05) returns for the i-th job
KeywordScoreJobs(jobs, criteria, max_jobs, jitters) ==
    LET keywords == Keywords(criteria)
    IN  IF \E i \in 1..Len(jobs) : JobTextRaises(jobs[i])
        THEN [raised |-> TRUE, jobs |-> <<>>]
        ELSE [raised |-> FALSE,
              jobs |-> Take(SortByRelevance(
                          [i \in 1..Len(jobs) |->
                              KeywordScoreOneJob(jobs[i], keywords, jitters[i])]),
                          max_jobs)]

(***************************************************************************)
(* Regular-expression searches of the providers, on strs.  A span is the   *)
(* pair of the first and last index of a match.                            *)
(***************************************************************************)
\* the matches of a literal
Spans(text, lit) ==
    {<<i, i + Len(lit) - 1>> : i \in {j \in 1..(Len(text) - Len(lit) + 1) :
                                        SubSeq(text, j, j + Len(lit) - 1) = lit}}

\* the matches of a.?b: "." is any character but a newline
SpansOpt(text, a, b) ==
    Spans(text, a \o b) \cup
    {s \in {<<i, i + Len(a) + Len(b)>> : i \in 1..(Len(text) - Len(a) - Len(b))} :
        /\ SubSeq(text, s[1], s[1] + Len(a) - 1) = a
        /\ text[s[1] + Len(a)] # "\n"
        /\ SubSeq(text, s[1] + Len(a) + 1, s[2]) = b}

\* re.search(A.{lo,hi}B): a match of A, lo to hi characters none of which is
\* a newline, a match of B
SearchGap(text, A, lo, hi, B) ==
    \E a \in A, b \in B :
        /\ b[1] - a[2] - 1 >= lo
        /\ b[1] - a[2] - 1 <= hi
        /\ \A i \in (a[2] + 1)..(b[1] - 1) : text[i] # "\n"

IsWordChar(c) ==
    \/ \E i \in 1..26 : UpperCase[i] = c \/ LowerCase[i] = c
    \/ c \in {"0","1","2","3","4","5","6","7","8","9","_"}

\* \b at both ends of a match that starts and ends with a word character
WordBounded(text, S) ==
    {s \in S : /\ (s[1] = 1 \/ ~IsWordChar(text[s[1] - 1]))
               /\ (s[2] = Len(text) \/ ~IsWordChar(text[s[2] + 1]))}

Remote == <<"r","e","m","o","t","e">>

Onsite == <<"o","n","s","i","t","e">>

Hybrid == <<"h","y","b","r","i","d">>

\* in.?office|in.?person
InOfficeOrPerson(text) ==
    SpansOpt(text, <<"i","n">>, <<"o","f","f","i","c","e">>) \cup SpansOpt(text, <<"i","n">>, <<"p","e","r","s","o","n">>)

(***************************************************************************)
(* Google Jobs: SerpApiJobScraper (googlejob_search.py).  A raw job is the *)
(* dict of the API's response; JSON null is None.                          *)
(***************************************************************************)
\* one of hybrid_patterns is found in description_lower
SerpHybridPattern(d) ==
    \/ Contains(d, Hybrid)
    \/ SearchGap(d, Spans(d, Remote), 1, 30, Spans(d, Onsite))
    \/ SearchGap(d, Spans(d, Onsite), 1, 30, Spans(d, Remote))
    \/ SearchGap(d, InOfficeOrPerson(d), 1, 30, Spans(d, Remote))
    \/ SearchGap(d, Spans(d, Remote), 1, 30, InOfficeOrPerson(d))
    \/ Contains(d, <<"w","o","r","k"," ","f","r","o","m"," ","h","o","m","e">>) \/ Contains(d, <<"w","o","r","k"," ","f","r","o","m"," ","o","f","f","i","c","e">>)
    \/ Contains(d, <<"w","o","r","k"," ","a","t"," ","h","o","m","e">>) \/ Contains(d, <<"w","o","r","k"," ","a","t"," ","o","f","f","i","c","e">>)

\* one of remote_patterns is found in description_lower
SerpRemotePattern(d) ==
    \/ WordBounded(d, Spans(d, Remote)) # {}
    \/ WordBounded(d, Spans(d, <<"w","o","r","k"," ","f","r","o","m"," ","h","o","m","e">>)) # {}
    \/ WordBounded(d, Spans(d, <<"w","f","h">>)) # {}
    \/ WordBounded(d, Spans(d, <<"v","i","r","t","u","a","l">>)) # {}
    \/ WordBounded(d, Spans(d, <<"t","e","l","e","w","o","r","k">>)) # {}

\* not remote|no remote|not work from home
SerpRemoteNegated(d) ==
    \/ Contains(d, <<"n","o","t"," ","r","e","m","o","t","e">>)
    \/ Contains(d, <<"n","o"," ","r","e","m","o","t","e">>)
    \/ Contains(d, <<"n","o","t"," ","w","o","r","k"," ","f","r","o","m"," ","h","o","m","e">>)

\* work location:\s*in person
SerpWorkLocationInPerson(d) ==
    \E a \in Spans(d, <<"w","o","r","k"," ","l","o","c","a","t","i","o","n",":">>),
       b \in Spans(d, <<"i","n"," ","p","e","r","s","o","n">>) :
        /\ b[1] > a[2]
        /\ \A i \in (a[2] + 1)..(b[1] - 1) : IsSpace(d[i])

\* one of onsite_patterns is found in description_lower
SerpOnsitePattern(d) ==
    \/ WordBounded(d, Spans(d, Onsite)) # {}
    \/ WordBounded(d, SpansOpt(d, <<"o","n">>, <<"s","i","t","e">>)) # {}
    \/ WordBounded(d, SpansOpt(d, <<"i","n">>, <<"o","f","f","i","c","e">>)) # {}
    \/ WordBounded(d, SpansOpt(d, <<"i","n">>, <<"p","e","r","s","o","n">>)) # {}
    \/ SerpWorkLocationInPerson(d)
    \/ Contains(d, <<"m","u","s","t"," ","b","e"," ","i","n"," ","o","f","f","i","c","e">>)
    \/ Contains(d, <<"m","u","s","t"," ","b","e"," ","i","n"," ","t","h","e"," ","o","f","f","i","c","e">>)

\* job["detected_extensions"]["work_from_home"] is there and true
SerpWorkFromHome(job) ==
    /\ "detected_extensions" \in DOMAIN job
    /\ "work_from_home" \in DOMAIN job.detected_extensions
    /\ job.detected_extensions.work_from_home

\* SerpApiJobScraper._extract_job_nature(job, description); None.lower()
\* raises, and the handler answers "Not specified"
SerpExtractJobNature(job, description) ==
    IF SerpWorkFromHome(job) THEN Remote
    ELSE IF description = PyNone THEN NotSpecified
    ELSE LET d == Lower(description)
         IN  IF SerpHybridPattern(d) THEN Hybrid
             ELSE IF SerpRemotePattern(d) /\ ~SerpRemoteNegated(d) THEN Remote
             ELSE IF SerpOnsitePattern(d) THEN Onsite
             ELSE NotSpecified

\* the regex oracle: what the experience (or salary) patterns find in a
\* description is carried by the raw record as pattern_experience (or
\* pattern_salary), None when nothing matches; a match holds a digit, so it
\* is never empty.  re.search on None raises and the handler answers "Not
\* specified".
PatternSearch(raw, key, description) ==
    IF description = PyNone THEN NotSpecified
    ELSE IF Get(raw, key, PyNone) = PyNone THEN NotSpecified
    ELSE raw[key]

\* SerpApiJobScraper._extract_experience(job, description)
SerpExtractExperience(job, description) ==
    IF /\ "detected_extensions" \in DOMAIN job
       /\ "work_experience" \in DOMAIN job.detected_extensions
    THEN job.detected_extensions.work_experience
    ELSE IF /\ "highlights" \in DOMAIN job
            /\ "years_of_experience" \in DOMAIN job.highlights
         THEN job.highlights.years_of_experience
         ELSE PatternSearch(job, "pattern_experience", description)

\* SerpApiJobScraper._extract_salary(job, description)
SerpExtractSalary(job, description) ==
    IF "salary" \in DOMAIN job THEN job.salary
    ELSE IF /\ "detected_extensions" \in DOMAIN job
            /\ "salary" \in DOMAIN job.detected_extensions
         THEN job.detected_extensions.salary
         ELSE PatternSearch(job, "pattern_salary", description)

NoLink == <<"#">>

\* SerpApiJobScraper._extract_apply_link(job)
SerpExtractApplyLink(job) ==
    IF /\ "apply_options" \in DOMAIN job
       /\ Len(job.apply_options) > 0
       /\ "link" \in DOMAIN job.apply_options[1]
    THEN job.apply_options[1].link
    ELSE Get(job, "apply_link", Get(job, "via", Get(job, "share_link", NoLink)))

\* the formatted_job of SerpApiJobScraper.scrape_jobs
SerpFormatJob(job) ==
    LET description == Get(job, "description", <<>>)
    IN  [job_title |-> Get(job, "title", NotSpecified),
         company |-> Get(job, "company_name", NotSpecified),
         location |-> Get(job, "location", NotSpecified),
         description |-> description,
         jobNature |-> SerpExtractJobNature(job, description),
         experience |-> SerpExtractExperience(job, description),
         salary |-> SerpExtractSalary(job, description),
         apply_link |-> SerpExtractApplyLink(job)]

(***************************************************************************)
(* LinkedIn: LinkedInJobScraper (linkedin_scraper.py).  A raw page is what *)
(* the parsed posting holds: the text of each element looked up (None when *)
(* the element is not there), the page's whole text, and what the          *)
(* experience and salary searches find.                                    *)
(***************************************************************************)
\* _safe_extract: element.text.strip() if element else None
SafeExtract(element_text) ==
    IF element_text = PyNone THEN PyNone ELSE Strip(element_text)

\* LinkedInJobScraper._extract_experience: the first text node holding
\* "<digits> years", stripped
LinkedInExtractExperience(page) ==
    IF page.experience_text = PyNone THEN NotSpecified
    ELSE Strip(page.experience_text)

\* LinkedInJobScraper._extract_salary: the job-criteria span under a
\* "Salary" heading (get_text(strip=True)), else a salary pattern in the
\* page's text
LinkedInExtractSalary(page) ==
    IF page.salary_criteria # PyNone THEN Strip(page.salary_criteria)
    ELSE PatternSearch(page, "pattern_salary", page.text)

\* LinkedInJobScraper._extract_job_nature
LinkedInExtractJobNature(page) ==
    LET description == Lower(page.text)
    IN  IF Contains(description, Remote) THEN Remote
        ELSE IF Contains(description, Onsite) \/ Contains(description, <<"o","n","-","s","i","t","e">>)
             THEN Onsite
             ELSE Hybrid

NoDescription == <<"N","o"," ","d","e","s","c","r","i","p","t","i","o","n"," ","a","v","a","i","l","a","b","l","e">>

\* LinkedInJobScraper._extract_description
LinkedInExtractDescription(page) ==
    IF page.description_div = PyNone THEN NoDescription
    ELSE Strip(page.description_div)

\* the job_post of LinkedInJobScraper.extract_job_details
LinkedInExtractJobDetails(job_url, page) ==
    [job_title |-> SafeExtract(page.title),
     company |-> SafeExtract(page.company),
     location |-> SafeExtract(page.location),
     experience |-> LinkedInExtractExperience(page),
     salary |-> LinkedInExtractSalary(page),
     jobNature |-> LinkedInExtractJobNature(page),
     apply_link |-> job_url,
     description |-> LinkedInExtractDescription(page)]

(***************************************************************************)
(* Indeed: ApifyIndeedScraper (indeed_scraper.py).  A raw job is an item   *)
(* of the actor's dataset; jobType is a list of strs.                      *)
(***************************************************************************)
\* " ".join(xs)
RECURSIVE JoinWithSpace(_)
JoinWithSpace(xs) ==
    IF xs = <<>> THEN <<>>
    ELSE IF Len(xs) = 1 THEN xs[1]
    ELSE xs[1] \o <<" ">> \o JoinWithSpace(Tail(xs))

\* the job_nature of ApifyIndeedScraper.scrape_jobs
IndeedJobNature(job) ==
    IF Get(job, "jobType", <<>>) = <<>> \/ Get(job, "jobType", <<>>) = PyNone
    THEN NotSpecified
    ELSE LET job_type_text == Lower(JoinWithSpace(job.jobType))
         IN  IF Contains(job_type_text, Remote) THEN Remote
             ELSE IF Contains(job_type_text, Hybrid) THEN Hybrid
             ELSE Onsite

\* the formatted_job of ApifyIndeedScraper.scrape_jobs
IndeedFormatJob(job) ==
    [job_title |-> Get(job, "positionName", NotSpecified),
     company |-> Get(job, "company", NotSpecified),
     location |-> Get(job, "location", NotSpecified),
     description |-> Get(job, "description", NoDescription),
     apply_link |-> Get(job, "externalApplyLink", Get(job, "url", NoLink)),
     jobNature |-> IndeedJobNature(job),
     experience |-> PatternSearch(job, "pattern_experience",
                                  Get(job, "description", <<>>)),
     salary |-> Get(job, "salary", NotSpecified)]

(***************************************************************************)
(* The response model of main.py: JobDetail raises a validation            *)
(* error when job_title or apply_link, the two fields that are not         *)
(* Optional, is missing or None.                                           *)
(***************************************************************************)
JobDetailRaises(job) ==
    \/ Get(job, "job_title", PyNone) = PyNone
    \/ Get(job, "apply_link", PyNone) = PyNone

\* the response built from filtered_jobs, one JobDetail a job;
\* an exception becomes HTTPException(status_code=500)
ToResponse(filtered_jobs) ==
    IF \E i \in 1..Len(filtered_jobs) : JobDetailRaises(filtered_jobs[i])
    THEN [status |-> 500, relevant_jobs |-> <<>>]
    ELSE [status |-> 200, relevant_jobs |-> filtered_jobs]

(***************************************************************************)
(* Bounds and sample inputs of the request pipeline                        *)
(***************************************************************************)
\* what a provider returns, and what the scoring service answers, repeats
\* with this period along the list
ScriptLen == 2

Scripts(S) == [1..ScriptLen -> S]

\* the i-th element of the list a script describes
Scripted(script, i) == script[((i - 1) % Len(script)) + 1]

IndexChar ==
    <<"1","2","3","4","5","6","7","8","9","10","11","12","13","14","15",
      "16","17","18","19","20">>

\* the URL of the i-th posting of a provider: postings differ in their URL
PostingUrl(provider, i) == <<provider, IndexChar[i]>>

LinkedInCompletePage ==
    [title |-> <<" ","D","e","v"," ">>, company |-> <<"C","o">>, location |-> <<"P","K">>,
     experience_text |-> PyNone, salary_criteria |-> PyNone,
     pattern_salary |-> PyNone, text |-> <<"D","e","v"," ","C","o"," ","P","K"," ","p","y">>,
     description_div |-> <<"p","y">>]

\* a posting whose page has no h2.top-card-layout__title element
LinkedInUntitledPage == [LinkedInCompletePage EXCEPT !.title = PyNone]

LinkedInPages == {LinkedInCompletePage, LinkedInUntitledPage}

SerpCompleteJob ==
    [title |-> <<"D","e","v">>, company_name |-> <<"C","o">>, location |-> <<"P","K">>,
     description |-> <<"g","o"," ","r","e","m","o","t","e">>]

SerpJobs == {SerpCompleteJob}

IndeedCompleteJob ==
    [positionName |-> <<"O","p","s">>, company |-> <<"C","o">>, location |-> <<"P","K">>,
     description |-> <<"o","n"," ","s","i","t","e">>, jobType |-> <<<<"F","u","l","l","-","t","i","m","e">>>>,
     salary |-> <<"1","k">>]

IndeedJobs == {IndeedCompleteJob}

\* JobSearchRequest: six strs
Requests ==
    {[position |-> <<"D","e","v">>, experience |-> <<"2">>, salary |-> <<"1","k">>,
      jobNature |-> <<"r","e","m","o","t","e">>, location |-> <<"P","K">>, skills |-> <<"p","y",","," ","g","o">>],
     [position |-> <<>>, experience |-> <<>>, salary |-> <<>>,
      jobNature |-> NotSpecified, location |-> NotSpecified, skills |-> <<>>]}

\* the answers of the text-generation service
ServiceRaises == [raises |-> TRUE, text |-> <<>>, members |-> EmptyDict]

ServiceScore(v) ==
    [raises |-> FALSE, text |-> <<"x","{","j","}","x">>,
     members |-> [overall_score |-> v, reasoning |-> [kind |-> "service"]]]

ServiceUnparseable == [raises |-> FALSE, text |-> <<"x","}","{">>, members |-> EmptyDict]

\* the reasoning json.loads gives for "reasoning": null, which is None
NullReasoning == [kind |-> "None"]

\* an answer that scores the job 0.9 and whose reasoning is null
ServiceNullReasoning ==
    [raises |-> FALSE, text |-> <<"x","{","j","}","x">>,
     members |-> [overall_score |-> (9 * Scale) \div 10,
                  reasoning |-> NullReasoning]]

PipelineResponses ==
    {ServiceRaises, ServiceScore((9 * Scale) \div 10), ServiceScore(Scale \div 10),
     ServiceScore(5 * Scale), ServiceNullReasoning}

Jitters == {0, MaxJitter}

\* how many postings LinkedIn or Google Jobs has for a request, of the
\* first max_jobs it is asked for
PostingCounts == {0, 1, 5, 7, ProviderMaxJobs}

(***************************************************************************)
(* The request pipeline: search_jobs of main.py                            *)
(***************************************************************************)
VARIABLES
    pc,               \* where search_jobs is
    request,          \* the JobSearchRequest
    serpapi_scraper,  \* whether get_serpapi_scraper returned a scraper
    indeed_scraper,   \* whether get_indeed_scraper returned a scraper
    all_jobs,         \* the pool
    sources_used,
    calls,            \* the providers called so far, with what each did
    llm_calls,        \* the number of generate_content calls
    llm_jobs,         \* the apply_link of the job of each call, in call order
    scorer,           \* which scorer produced filtered_jobs
    response,         \* the HTTP response
    input,            \* the arguments of a function applied on its own
    output,           \* and its result
    running,          \* KeepAliveService.running
    thread,           \* KeepAliveService.thread: a worker, or NoThread
    worker,           \* where each worker thread is in _keep_alive_task
    caller            \* where the thread that calls start() and stop() is

vars == <<pc, request, serpapi_scraper, indeed_scraper, all_jobs, sources_used,
          calls, llm_calls, llm_jobs, scorer, response, input, output,
          running, thread, worker, caller>>

\* the fields of a KeepAliveService and the threads about it
service == <<running, thread, worker, caller>>

\* how many times start() can create a worker thread
MaxThreads == 3

Threads == 1..MaxThreads

NoThread == 0

\* KeepAliveService.__init__: not running, no thread
ServiceIdle ==
    /\ running = FALSE
    /\ thread = NoThread
    /\ worker = [t \in Threads |-> "unborn"]
    /\ caller = "idle"

NoResponse == [status |-> 0, relevant_jobs |-> <<>>]

NoInput == [fn |-> "none"]

NoOutput == [done |-> FALSE]

Init ==
    /\ pc = "linkedin"
    /\ request \in Requests
    /\ serpapi_scraper \in BOOLEAN
    /\ indeed_scraper \in BOOLEAN
    /\ all_jobs = <<>>
    /\ sources_used = <<>>
    /\ calls = <<>>
    /\ llm_calls = 0
    /\ llm_jobs = <<>>
    /\ scorer = "none"
    /\ response = NoResponse
    /\ input = NoInput
    /\ output = NoOutput
    /\ ServiceIdle

\* a provider's jobs put in front of the pool
CollectInFront(jobs, source) ==
    /\ all_jobs' = IF jobs # <<>> THEN jobs \o all_jobs ELSE all_jobs
    /\ sources_used' = IF jobs # <<>> THEN Append(sources_used, source)
                       ELSE sources_used

\* all_jobs and sources_used after a provider returned jobs
Collect(jobs, source) ==
    /\ all_jobs' = IF jobs # <<>> THEN all_jobs \o jobs ELSE all_jobs
    /\ sources_used' = IF jobs # <<>> THEN Append(sources_used, source)
                       ELSE sources_used

\* LinkedInJobScraper.scrape_jobs(max_jobs): the postings of the first
\* max_jobs ids at most
LinkedInPostings ==
    [page \in LinkedInPages, i \in 1..ProviderMaxJobs |->
        LinkedInExtractJobDetails(PostingUrl("l", i), page)]

LinkedInScrapeJobs(n, script) ==
    [i \in 1..n |-> LinkedInPostings[Scripted(script, i), i]]

\* 1. LinkedIn: the scraper raises (an exception that is not a
\* requests.RequestException), fails inside (get_job_ids answers [] on a
\* RequestException), or returns its jobs
LinkedInStep ==
    /\ pc = "linkedin"
    /\ \/ /\ calls' = Append(calls, [provider |-> "LinkedIn",
                                     max_jobs |-> ProviderMaxJobs,
                                     outcome |-> "raised", jobs |-> 0])
          /\ UNCHANGED <<all_jobs, sources_used>>
       \/ /\ calls' = Append(calls, [provider |-> "LinkedIn",
                                     max_jobs |-> ProviderMaxJobs,
                                     outcome |-> "failed", jobs |-> 0])
          /\ Collect(<<>>, "LinkedIn")
       \/ \E n \in PostingCounts, script \in Scripts(LinkedInPages) :
            /\ calls' = Append(calls, [provider |-> "LinkedIn",
                                       max_jobs |-> ProviderMaxJobs,
                                       outcome |-> "returned", jobs |-> n])
            /\ Collect(LinkedInScrapeJobs(n, script), "LinkedIn")
    /\ pc' = "google"
    /\ UNCHANGED <<request, serpapi_scraper, indeed_scraper, llm_calls, llm_jobs,
                   scorer, response, input, output, service>>

\* SerpApiJobScraper.scrape_jobs(title, location, max_jobs): jobs_results
\* cut to max_jobs and formatted
SerpPostings ==
    [job \in SerpJobs, i \in 1..ProviderMaxJobs |->
        SerpFormatJob(Put(job, "share_link", PostingUrl("g", i)))]

SerpScrapeJobs(n, script) ==
    [i \in 1..n |-> SerpPostings[Scripted(script, i), i]]

\* 2. Google Jobs, when a scraper is configured: scrape_jobs answers [] on
\* every failure
GoogleStep ==
    /\ pc = "google"
    /\ IF ~serpapi_scraper
       THEN UNCHANGED <<all_jobs, sources_used, calls>>
       ELSE \/ /\ calls' = Append(calls, [provider |-> "Google Jobs",
                                          max_jobs |-> ProviderMaxJobs,
                                          outcome |-> "failed", jobs |-> 0])
               /\ Collect(<<>>, "Google Jobs")
            \/ \E n \in PostingCounts, script \in Scripts(SerpJobs) :
                      /\ calls' = Append(calls, [provider |-> "Google Jobs",
                                            max_jobs |-> ProviderMaxJobs,
                                            outcome |-> "returned", jobs |-> n])
                 /\ Collect(SerpScrapeJobs(n, script), "Google Jobs")
    /\ pc' = "indeed"
    /\ UNCHANGED <<request, serpapi_scraper, indeed_scraper, llm_calls, llm_jobs,
                   scorer, response, input, output, service>>

\* ApifyIndeedScraper.scrape_jobs(title, location, max_jobs, country): the
\* actor is run with maxItems = max_jobs and its items are formatted
IndeedPostings ==
    [job \in IndeedJobs, i \in 1..IndeedMaxJobs |->
        IndeedFormatJob(Put(job, "url", PostingUrl("i", i)))]

IndeedScrapeJobs(n, script) ==
    [i \in 1..n |-> IndeedPostings[Scripted(script, i), i]]

\* Indeed asked with 8 jobs found as well
IndeedWantedAtThreshold == indeed_scraper /\ Len(all_jobs) <= IndeedThreshold

\* the condition under which Indeed is asked: a scraper is configured and
\* fewer than 8 jobs were found
IndeedWanted == indeed_scraper /\ Len(all_jobs) < IndeedThreshold

\* 3. Indeed
IndeedStep ==
    /\ pc = "indeed"
    /\ IF IndeedWanted
       THEN \/ /\ calls' = Append(calls, [provider |-> "Indeed",
                                          max_jobs |-> IndeedMaxJobs,
                                          outcome |-> "failed", jobs |-> 0])
               /\ Collect(<<>>, "Indeed")
            \/ \E n \in 0..IndeedMaxJobs, script \in Scripts(IndeedJobs) :
                      /\ calls' = Append(calls, [provider |-> "Indeed",
                                            max_jobs |-> IndeedMaxJobs,
                                            outcome |-> "returned", jobs |-> n])
                 /\ Collect(IndeedScrapeJobs(n, script), "Indeed")
       ELSE UNCHANGED <<all_jobs, sources_used, calls>>
    /\ pc' = "score"
    /\ UNCHANGED <<request, serpapi_scraper, indeed_scraper, llm_calls, llm_jobs,
                   scorer, response, input, output, service>>

\* no job was found by any source, and that ends the request with an error
NoJobsIsAnError ==
    /\ pc = "score"
    /\ all_jobs = <<>>
    /\ response' = [status |-> 500, relevant_jobs |-> <<>>]
    /\ pc' = "done"
    /\ UNCHANGED <<request, serpapi_scraper, indeed_scraper, all_jobs,
                   sources_used, calls, llm_calls, llm_jobs, scorer, input, output, service>>

\* no job was found by any source
NoJobs ==
    /\ pc = "score"
    /\ all_jobs = <<>>
    /\ response' = [status |-> 200, relevant_jobs |-> <<>>]
    /\ pc' = "done"
    /\ UNCHANGED <<request, serpapi_scraper, indeed_scraper, all_jobs,
                   sources_used, calls, llm_calls, llm_jobs, scorer, input, output, service>>

\* search_criteria
SearchCriteria(req) == req

\* the whole pool, however many jobs it has
JobsWithoutBudget(jobs) == jobs

\* jobs_for_filtering
JobsForFiltering(jobs) ==
    IF Len(jobs) > ScoringBudget THEN Take(jobs, ScoringBudget) ELSE jobs

\* the semantic pass: filter_relevant_jobs returns, and its result is
\* converted to the response
SemanticScore ==
    /\ pc = "score"
    /\ all_jobs # <<>>
    /\ \E script \in Scripts(PipelineResponses) :
         LET jobs == JobsForFiltering(all_jobs)
             resps == [i \in 1..Len(jobs) |-> Scripted(script, i)]
             evaluations == Evaluations(jobs, SearchCriteria(request), resps)
         IN  /\ llm_calls' = Len(jobs)
             /\ llm_jobs' = [i \in 1..Len(jobs) |-> jobs[i].apply_link]
             /\ all_jobs' = MutatedInput(jobs, evaluations)
                            \o SubSeq(all_jobs, Len(jobs) + 1, Len(all_jobs))
             /\ response' = ToResponse(
                    RelevantJobs(ScoredJobs(jobs, evaluations),
                                 MinScore, MaxResults))
    /\ scorer' = "semantic"
    /\ pc' = "done"
    /\ UNCHANGED <<request, serpapi_scraper, indeed_scraper, sources_used,
                   calls, input, output, service>>

\* the fallback given jobs_for_filtering
FallbackJobsTrimmed(jobs) == JobsForFiltering(jobs)

\* the jobs handed to keyword_score_jobs: jobs=all_jobs
FallbackJobs(jobs) == jobs

\* the handler of main.py for an exception of filter_relevant_jobs, which
\* absorbs every failure of scoring one job and so raises only outside its
\* loop: keyword_score_jobs scores the whole pool; its own exception ends
\* the request with status 500
FallbackScore ==
    /\ pc = "score"
    /\ all_jobs # <<>>
    /\ \E script \in Scripts(Jitters) :
         LET jobs == FallbackJobs(all_jobs)
             jitters == [i \in 1..Len(jobs) |-> Scripted(script, i)]
             scored == KeywordScoreJobs(jobs, SearchCriteria(request),
                                        MaxResults, jitters)
         IN  /\ response' = IF scored.raised
                            THEN [status |-> 500, relevant_jobs |-> <<>>]
                            ELSE ToResponse(scored.jobs)
    /\ scorer' = "keyword"
    /\ pc' = "done"
    /\ UNCHANGED <<request, serpapi_scraper, indeed_scraper, all_jobs,
                   sources_used, calls, llm_calls, llm_jobs, input, output, service>>

Next ==
    \/ LinkedInStep
    \/ GoogleStep
    \/ IndeedStep
    \/ NoJobs
    \/ SemanticScore
    \/ FallbackScore

Spec == Init /\ [][Next]_vars

(***************************************************************************)
(* The request pipeline with outbound calls that never answer.  No         *)
(* outbound call of the code is given a timeout, so a call that is not     *)
(* answered does not return: search_jobs stays in it.                      *)
(***************************************************************************)
\* requests.get(list_url, headers=...) of get_job_ids, or
\* requests.get(job_url, headers=...) of extract_job_details, never returns
LinkedInFetchBlocks ==
    /\ pc = "linkedin"
    /\ pc' = "linkedin_blocked"
    /\ UNCHANGED <<request, serpapi_scraper, indeed_scraper, all_jobs,
                   sources_used, calls, llm_calls, llm_jobs, scorer, response, input,
                   output, service>>

\* requests.get("https://serpapi.com/search", params=params) never returns
SerpApiFetchBlocks ==
    /\ pc = "google"
    /\ serpapi_scraper
    /\ pc' = "google_blocked"
    /\ UNCHANGED <<request, serpapi_scraper, indeed_scraper, all_jobs,
                   sources_used, calls, llm_calls, llm_jobs, scorer, response, input,
                   output, service>>

\* client.actor(...).call(run_input=run_input) waits for a run that never
\* finishes
ApifyRunBlocks ==
    /\ pc = "indeed"
    /\ IndeedWanted
    /\ pc' = "indeed_blocked"
    /\ UNCHANGED <<request, serpapi_scraper, indeed_scraper, all_jobs,
                   sources_used, calls, llm_calls, llm_jobs, scorer, response, input,
                   output, service>>

\* model.generate_content(prompt) never returns, for the first job scored
GenerateContentBlocks ==
    /\ pc = "score"
    /\ all_jobs # <<>>
    /\ pc' = "score_blocked"
    /\ llm_calls' = 1
    /\ llm_jobs' = <<JobsForFiltering(all_jobs)[1].apply_link>>
    /\ UNCHANGED <<request, serpapi_scraper, indeed_scraper, all_jobs,
                   sources_used, calls, scorer, response, input, output, service>>

BlockingNext ==
    \/ Next
    \/ LinkedInFetchBlocks
    \/ SerpApiFetchBlocks
    \/ ApifyRunBlocks
    \/ GenerateContentBlocks

\* search_jobs takes its next step whenever it has one: a handler that is
\* not waiting for a call runs on
BlockingSpec == Init /\ [][BlockingNext]_vars /\ WF_vars(BlockingNext)

(***************************************************************************)
(* The two scorers applied on their own, to every small pool               *)
(***************************************************************************)
\* the longest pool the scorers are applied to on their own
MaxPool == 3

\* a job as a provider hands it over: the i-th posting of Google Jobs
PoolJob(raw, i) == SerpFormatJob(Put(raw, "share_link", PostingUrl("g", i)))

\* a posting that holds none of the keywords of the first of Requests, one
\* that holds some, one that holds them all
SerpOffTopicJob ==
    [title |-> <<"O","p","s">>, company_name |-> <<"C","o">>, location |-> <<"U","K">>,
     description |-> <<"o","n"," ","s","i","t","e">>]

SerpMatchingJob ==
    [title |-> <<"D","e","v">>, company_name |-> <<"C","o">>, location |-> <<"P","K">>,
     description |-> <<"p","y"," ","g","o"," ","r","e","m","o","t","e">>]

ScorerRawJobs == {SerpOffTopicJob, SerpCompleteJob, SerpMatchingJob}

ScorerPostings ==
    [raw \in ScorerRawJobs, i \in 1..MaxPool |-> PoolJob(raw, i)]

Pool(raws) == [i \in 1..Len(raws) |-> ScorerPostings[raws[i], i]]

Lists(S) == UNION {[1..n -> S] : n \in 0..MaxPool}

\* the answers of the service the semantic scorer is applied to
ScorerResponses ==
    {ServiceRaises, ServiceUnparseable,
     ServiceScore(Scale \div 10), ServiceScore(Scale \div 2),
     ServiceScore((9 * Scale) \div 10), ServiceScore(NaN)}

ScorerMinScores == {MinScore, Scale \div 2}

ScorerMaxJobs == {1, 2, MaxResults}

FilterInputs ==
    {[fn |-> "filter_relevant_jobs", jobs |-> Pool([i \in 1..Len(resps) |->
                                                       SerpCompleteJob]),
      criteria |-> criteria, min_score |-> min_score, max_jobs |-> max_jobs,
      resps |-> resps] :
        resps \in Lists(ScorerResponses), criteria \in Requests,
        min_score \in ScorerMinScores, max_jobs \in ScorerMaxJobs}

\* a posting titled "Backend Engineer" that holds neither "python" nor
\* "django"
SerpBackendJob ==
    [title |-> <<"B","a","c","k","e","n","d"," ","E","n","g","i","n","e","e","r">>, company_name |-> <<"C","o">>, location |-> <<"P","K">>,
     description |-> <<"a","p","i">>]

BackendPool == <<PoolJob(SerpBackendJob, 1)>>

\* pools of LinkedIn postings, complete or untitled
LinkedInPools ==
    {[i \in 1..Len(pages) |-> LinkedInPostings[pages[i], i]] :
        pages \in Lists(LinkedInPages)}

\* criteria whose only keywords are the skills "python" and "django", and
\* criteria with every field empty
SkillsOnlyCriteria ==
    [position |-> <<>>, experience |-> <<>>, salary |-> <<>>,
     jobNature |-> NotSpecified, location |-> NotSpecified,
     skills |-> <<"p","y","t","h","o","n",","," ","d","j","a","n","g","o">>]

BlankCriteria ==
    [position |-> <<>>, experience |-> <<>>, salary |-> <<>>,
     jobNature |-> <<>>, location |-> <<>>, skills |-> <<>>]

\* criteria whose skills name one keyword twice
RepeatedSkillCriteria ==
    [position |-> <<>>, experience |-> <<>>, salary |-> <<>>,
     jobNature |-> NotSpecified, location |-> NotSpecified,
     skills |-> <<"p","y",","," ","p","y",","," ","g","o">>]

ScorerCriteria ==
    Requests \cup {SkillsOnlyCriteria, BlankCriteria, RepeatedSkillCriteria}

\* answers of the service by the text about the object: no brace, a "}"
\* before the only "{", a brace without its partner, a substring that does
\* not parse, an empty object, an object without overall_score, and an
\* object whose overall_score is not the average of its other scores
ServiceText(text, members) == [raises |-> FALSE, text |-> text, members |-> members]

SubScores ==
    [title_score |-> Scale \div 10, skills_score |-> Scale \div 10,
     reasoning |-> [kind |-> "service"]]

ParseResponses ==
    {ServiceText(<<"x">>, EmptyDict), ServiceText(<<"}","x","{">>, EmptyDict),
     ServiceText(<<"{","x">>, EmptyDict), ServiceText(<<"x","}">>, EmptyDict),
     ServiceText(<<"{","x","}">>, EmptyDict), ServiceText(<<"x","{","}","x">>, EmptyDict),
     ServiceText(<<"{","j","}">>, SubScores),
     ServiceText(<<"x","{","j","}">>, [overall_score |-> NotCoercible]),
     ServiceText(<<"{","j","}","x">>,
                 [title_score |-> Scale \div 10, skills_score |-> Scale \div 10,
                  reasoning |-> [kind |-> "service"],
                  overall_score |-> (9 * Scale) \div 10])}

ParseInputs ==
    {[fn |-> "filter_relevant_jobs", jobs |-> Pool(<<SerpCompleteJob>>),
      criteria |-> criteria, min_score |-> min_score, max_jobs |-> MaxResults,
      resps |-> <<resp>>] :
        criteria \in Requests, min_score \in ScorerMinScores,
        resp \in ParseResponses}

\* a pool of two jobs that the service scores 0.9 and 0.6, in both orders,
\* filtered with min_score 0.5 and max_jobs 1
TwoJobInputs ==
    {[fn |-> "filter_relevant_jobs",
      jobs |-> Pool(<<SerpCompleteJob, SerpCompleteJob>>),
      criteria |-> criteria, min_score |-> Scale \div 2, max_jobs |-> 1,
      resps |-> resps] :
        criteria \in Requests,
        resps \in {<<ServiceScore((9 * Scale) \div 10), ServiceScore((6 * Scale) \div 10)>>,
                   <<ServiceScore((6 * Scale) \div 10), ServiceScore((9 * Scale) \div 10)>>}}

\* criteria of twenty keywords, nineteen of them in the text of both
\* SerpCompleteJob and SerpMatchingJob and the last, "py", in the second
\* only: the two scores before the random factor are 0.95 and 1.0
TwentySkillsCriteria ==
    [position |-> <<>>, experience |-> <<>>, salary |-> <<>>,
     jobNature |-> NotSpecified, location |-> NotSpecified,
     skills |-> <<"d","e","v",",","c","o",",","p","k",",","g","o",",","r","e","m","o","t","e",",","d",",","e",",","v",",","c",",","o",",","p",",","k",",","g",",","r",",","m",",","t",",","d","e",",","e","v",",","r","e",",","p","y">>]

CloseScoreInputs ==
    {[fn |-> "keyword_score_jobs",
      jobs |-> Pool(<<SerpCompleteJob, SerpMatchingJob>>),
      criteria |-> TwentySkillsCriteria, max_jobs |-> MaxResults,
      jitters |-> jitters] : jitters \in [1..2 -> Jitters]}

KeywordInputs ==
    {[fn |-> "keyword_score_jobs", jobs |-> Pool([i \in 1..Len(js) |-> js[i][1]]),
      criteria |-> criteria, max_jobs |-> max_jobs,
      jitters |-> [i \in 1..Len(js) |-> js[i][2]]] :
        js \in Lists(ScorerRawJobs \X Jitters), criteria \in Requests,
        max_jobs \in ScorerMaxJobs}
    \cup UNION {{[fn |-> "keyword_score_jobs", jobs |-> jobs,
                  criteria |-> criteria, max_jobs |-> max_jobs,
                  jitters |-> jitters] :
                    jitters \in [1..Len(jobs) -> Jitters],
                    criteria \in ScorerCriteria, max_jobs \in ScorerMaxJobs} :
                jobs \in LinkedInPools \cup {BackendPool}}
    \cup CloseScoreInputs

Idle ==
    /\ pc = "idle"
    /\ request = CHOOSE r \in Requests : TRUE
    /\ serpapi_scraper = FALSE
    /\ indeed_scraper = FALSE
    /\ all_jobs = <<>>
    /\ sources_used = <<>>
    /\ calls = <<>>
    /\ llm_calls = 0
    /\ llm_jobs = <<>>
    /\ scorer = "none"
    /\ response = NoResponse
    /\ ServiceIdle

FrameOfRequest ==
    UNCHANGED <<pc, request, serpapi_scraper, indeed_scraper, all_jobs,
                sources_used, calls, llm_calls, llm_jobs, scorer, response>>

ScorerInit ==
    /\ Idle
    /\ input \in FilterInputs \cup TwoJobInputs \cup ParseInputs \cup KeywordInputs
    /\ output = NoOutput

ApplyFilterRelevantJobs ==
    /\ input.fn = "filter_relevant_jobs"
    /\ ~output.done
    /\ LET evaluations == Evaluations(input.jobs, input.criteria, input.resps)
       IN  output' = [done |-> TRUE, raised |-> FALSE,
                      scored_jobs |-> ScoredJobs(input.jobs, evaluations),
                      jobs |-> FilterRelevantJobs(input.jobs, input.criteria,
                                                  input.min_score, input.max_jobs,
                                                  input.resps)]
    /\ UNCHANGED <<input, service>>
    /\ FrameOfRequest

ApplyKeywordScoreJobs ==
    /\ input.fn = "keyword_score_jobs"
    /\ ~output.done
    /\ LET scored == KeywordScoreJobs(input.jobs, input.criteria, input.max_jobs,
                                      input.jitters)
           keywords == Keywords(input.criteria)
       IN  output' = [done |-> TRUE, raised |-> scored.raised,
                      scored_jobs |-> <<>>, jobs |-> scored.jobs,
                      base_scores |->
                          IF scored.raised THEN <<>>
                          ELSE [i \in 1..Len(input.jobs) |->
                                   KeywordBaseScore(keywords,
                                                    JobText(input.jobs[i]))]]
    /\ UNCHANGED <<input, service>>
    /\ FrameOfRequest

ScorerNext ==
    \/ ApplyFilterRelevantJobs
    \/ ApplyKeywordScoreJobs

ScorerSpec == ScorerInit /\ [][ScorerNext]_vars

(***************************************************************************)
(* The three normalizers applied on their own, to raw postings with every  *)
(* combination of present, empty and missing fields                        *)
(***************************************************************************)
LinkedInRawPages ==
    [title : {PyNone, <<>>, <<" ","D","e","v"," ">>},
     company : {PyNone, <<"C","o">>},
     location : {PyNone, <<"P","K">>},
     experience_text : {PyNone, <<" ","2"," ","y","e","a","r","s"," ">>},
     salary_criteria : {PyNone, <<"1","k">>},
     pattern_salary : {PyNone},
     text : {<<"D","e","v">>, <<"D","e","v"," ","R","e","m","o","t","e">>},
     description_div : {PyNone, <<>>, <<"p","y">>}]

\* a dict that has key k with each value of vs, or has no key k
WithKey(dicts, k, vs) ==
    dicts \cup {Put(d, k, v) : d \in dicts, v \in vs}

SerpRawJobs ==
    WithKey(WithKey(WithKey(WithKey(WithKey(
        {[pattern_experience |-> PyNone, pattern_salary |-> PyNone]},
        "title", {<<"D","e","v">>, PyNone}),
        "company_name", {<<"C","o">>}),
        "description", {<<"p","y">>, <<>>, PyNone}),
        "salary", {<<"1","k">>, PyNone}),
        "apply_options", {<<>>, <<[link |-> <<"u">>]>>})

IndeedRawJobs ==
    WithKey(WithKey(WithKey(WithKey(WithKey(
        {[pattern_experience |-> PyNone]},
        "positionName", {<<"D","e","v">>, PyNone}),
        "description", {<<"p","y">>, PyNone}),
        "externalApplyLink", {<<"u">>, PyNone}),
        "url", {<<"v">>}),
        "jobType", {<<<<"F","u","l","l","-","t","i","m","e">>>>, <<>>})

NormalizerInputs ==
    {[fn |-> "extract_job_details", raw |-> raw] : raw \in LinkedInRawPages}
    \cup {[fn |-> "SerpApiJobScraper.scrape_jobs", raw |-> raw] : raw \in SerpRawJobs}
    \cup {[fn |-> "ApifyIndeedScraper.scrape_jobs", raw |-> raw] : raw \in IndeedRawJobs}

NormalizerInit ==
    /\ Idle
    /\ input \in NormalizerInputs
    /\ output = NoOutput

ApplyLinkedInNormalizer ==
    /\ input.fn = "extract_job_details"
    /\ ~output.done
    /\ output' = [done |-> TRUE,
                  job |-> LinkedInExtractJobDetails(PostingUrl("l", 1), input.raw)]
    /\ UNCHANGED <<input, service>>
    /\ FrameOfRequest

ApplySerpNormalizer ==
    /\ input.fn = "SerpApiJobScraper.scrape_jobs"
    /\ ~output.done
    /\ output' = [done |-> TRUE, job |-> SerpFormatJob(input.raw)]
    /\ UNCHANGED <<input, service>>
    /\ FrameOfRequest

ApplyIndeedNormalizer ==
    /\ input.fn = "ApifyIndeedScraper.scrape_jobs"
    /\ ~output.done
    /\ output' = [done |-> TRUE, job |-> IndeedFormatJob(input.raw)]
    /\ UNCHANGED <<input, service>>
    /\ FrameOfRequest

NormalizerNext ==
    \/ ApplyLinkedInNormalizer
    \/ ApplySerpNormalizer
    \/ ApplyIndeedNormalizer

NormalizerSpec == NormalizerInit /\ [][NormalizerNext]_vars

(***************************************************************************)
(* The three work-mode inferences applied on their own, to every short     *)
(* text over a vocabulary of cues                                          *)
(***************************************************************************)
\* the most words a text has
MaxWords == 3

\* thirty-one characters: two cues this far apart are not a hybrid pattern
LongWord ==
    <<"a","a","a","a","a","a","a","a","a","a","a","a","a","a","a","a","a","a","a","a","a","a","a","a","a","a","a","a","a","a","a">>

Vocabulary ==
    {<<"H","y","b","r","i","d">>, <<"r","e","m","o","t","e">>, <<"R","e","m","o","t","e">>, <<"o","n","s","i","t","e">>, <<"o","n","-","s","i","t","e">>, <<"n","o","t">>,
     <<"o","f","f","i","c","e">>, LongWord}

WordLists == UNION {[1..n -> Vocabulary] : n \in 0..MaxWords}

NatureInputs ==
    {[fn |-> "LinkedInJobScraper._extract_job_nature", words |-> ws,
      work_from_home |-> "absent"] : ws \in WordLists}
    \cup {[fn |-> "SerpApiJobScraper._extract_job_nature", words |-> ws,
           work_from_home |-> w] : ws \in WordLists,
                                   w \in {"absent", "false", "true"}}
    \cup {[fn |-> "ApifyIndeedScraper.scrape_jobs", words |-> ws,
           work_from_home |-> "absent"] : ws \in WordLists}

\* the text the words make
InputText == JoinWithSpace(input.words)

NatureInit ==
    /\ Idle
    /\ input \in NatureInputs
    /\ output = NoOutput

\* the page's whole text is the words
InferLinkedInJobNature ==
    /\ input.fn = "LinkedInJobScraper._extract_job_nature"
    /\ ~output.done
    /\ output' = [done |-> TRUE,
                  jobNature |-> LinkedInExtractJobNature(
                      [LinkedInCompletePage EXCEPT !.text = InputText])]
    /\ UNCHANGED <<input, service>>
    /\ FrameOfRequest

\* the description is the words; detected_extensions holds work_from_home
\* or does not
InferSerpJobNature ==
    /\ input.fn = "SerpApiJobScraper._extract_job_nature"
    /\ ~output.done
    /\ LET job == IF input.work_from_home = "absent"
                  THEN [description |-> InputText]
                  ELSE [description |-> InputText,
                        detected_extensions |->
                            [work_from_home |-> input.work_from_home = "true"]]
       IN  output' = [done |-> TRUE,
                      jobNature |-> SerpExtractJobNature(job, job.description)]
    /\ UNCHANGED <<input, service>>
    /\ FrameOfRequest

\* jobType is the list of the words
InferIndeedJobNature ==
    /\ input.fn = "ApifyIndeedScraper.scrape_jobs"
    /\ ~output.done
    /\ output' = [done |-> TRUE,
                  jobNature |-> IndeedJobNature([jobType |-> input.words])]
    /\ UNCHANGED <<input, service>>
    /\ FrameOfRequest

NatureNext ==
    \/ InferLinkedInJobNature
    \/ InferSerpJobNature
    \/ InferIndeedJobNature

NatureSpec == NatureInit /\ [][NatureNext]_vars

(***************************************************************************)
(* KeepAliveService of keep_alive.py: one thread calls start() and stop(), *)
(* and each start() that finds the service not running creates a worker    *)
(* thread that runs _keep_alive_task.                                      *)
(***************************************************************************)
KeepAliveInit ==
    /\ Idle
    /\ input = NoInput
    /\ output = NoOutput

FrameOfService ==
    /\ FrameOfRequest
    /\ UNCHANGED <<input, output>>

\* start(): self.url is always set by __init__; a running service is left
\* as it is; otherwise running is set and a new thread is started
Start ==
    /\ caller = "idle"
    /\ IF running
       THEN UNCHANGED <<running, thread, worker>>
       ELSE \E t \in Threads :
              /\ worker[t] = "unborn"
              /\ \A u \in Threads : u < t => worker[u] # "unborn"
              /\ running' = TRUE
              /\ thread' = t
              /\ worker' = [worker EXCEPT ![t] = "while"]
    /\ UNCHANGED caller
    /\ FrameOfService

\* stop(), to the call of join: nothing when not running; otherwise
\* running is cleared, and the thread, when there is one, is joined
Stop ==
    /\ caller = "idle"
    /\ IF ~running
       THEN UNCHANGED <<running, caller>>
       ELSE /\ running' = FALSE
            /\ caller' = IF thread # NoThread THEN "join" ELSE "idle"
    /\ UNCHANGED <<thread, worker>>
    /\ FrameOfService

\* self.thread.join(timeout=1.0) returns because the worker has ended
JoinEnds ==
    /\ caller = "join"
    /\ worker[thread] = "ended"
    /\ thread' = NoThread
    /\ caller' = "idle"
    /\ UNCHANGED <<running, worker>>
    /\ FrameOfService

\* self.thread.join(timeout=1.0) returns because one second has passed
JoinTimesOut ==
    /\ caller = "join"
    /\ thread' = NoThread
    /\ caller' = "idle"
    /\ UNCHANGED <<running, worker>>
    /\ FrameOfService

\* a loop that does not read the flag
WhileTrue(t) ==
    /\ worker[t] = "while"
    /\ worker' = [worker EXCEPT ![t] = "ping"]
    /\ UNCHANGED <<running, thread, caller>>
    /\ FrameOfService

\* while self.running: the worker reads the flag
WhileRunning(t) ==
    /\ worker[t] = "while"
    /\ worker' = [worker EXCEPT ![t] = IF running THEN "ping" ELSE "ended"]
    /\ UNCHANGED <<running, thread, caller>>
    /\ FrameOfService

\* requests.get(self.url, timeout=30) returns or raises, and the result is
\* logged
Ping(t) ==
    /\ worker[t] = "ping"
    /\ worker' = [worker EXCEPT ![t] = "sleep"]
    /\ UNCHANGED <<running, thread, caller>>
    /\ FrameOfService

\* time.sleep(self.interval_seconds) returns
Sleep(t) ==
    /\ worker[t] = "sleep"
    /\ worker' = [worker EXCEPT ![t] = "while"]
    /\ UNCHANGED <<running, thread, caller>>
    /\ FrameOfService

Worker(t) == WhileRunning(t) \/ Ping(t) \/ Sleep(t)

KeepAliveNext ==
    \/ Start
    \/ Stop
    \/ JoinEnds
    \/ JoinTimesOut
    \/ \E t \in Threads : WhileRunning(t)
    \/ \E t \in Threads : Ping(t)
    \/ \E t \in Threads : Sleep(t)

\* a worker thread that can run is run, the ping ends within its timeout
\* and the sleep within its interval; a join with a timeout returns
KeepAliveSpec ==
    /\ KeepAliveInit
    /\ [][KeepAliveNext]_vars
    /\ \A t \in Threads : WF_vars(Worker(t))
    /\ WF_vars(JoinEnds \/ JoinTimesOut)

(***************************************************************************)
(* Properties of the request pipeline (Spec)                               *)
(***************************************************************************)
Ended == pc = "done"

Collected == pc \in {"score", "done"}

ProviderCalled(p) == \E i \in 1..Len(calls) : calls[i].provider = p

\* how many jobs provider p returned
JobsFrom(p) ==
    IF ProviderCalled(p)
    THEN calls[CHOOSE i \in 1..Len(calls) : calls[i].provider = p].jobs
    ELSE 0

ProviderFailed(p) ==
    \E i \in 1..Len(calls) :
        calls[i].provider = p /\ calls[i].outcome \in {"raised", "failed"}

Providers == {"LinkedIn", "Google Jobs", "Indeed"}

\* a job of the pool lacks a title
UntitledJobInPool ==
    \E i \in 1..Len(all_jobs) : Get(all_jobs[i], "job_title", PyNone) = PyNone

\* C1: whichever scorer a request with a non-empty pool took, the list it
\* returns has at most 20 jobs and each of them has relevance_score >= 0.3
C1_CapAndThreshold ==
    (Ended /\ response.status = 200 /\ all_jobs # <<>>) =>
        /\ Len(response.relevant_jobs) <= MaxResults
        /\ \A i \in 1..Len(response.relevant_jobs) :
               PyGe(RelevanceKey(response.relevant_jobs[i]), MinScore)

\* the service was called for this request and every call of it failed
EveryServiceCallFailed ==
    /\ llm_calls > 0
    /\ \A i \in 1..llm_calls :
          /\ "relevance_reasoning" \in DOMAIN all_jobs[i]
          /\ all_jobs[i].relevance_reasoning = EvaluationErrorReasoning

\* C3: when the service fails for every job of a non-empty pool, the
\* request ends without an error and its jobs are those the keyword
\* fallback scored
C3_FallbackOnOutage ==
    (Ended /\ EveryServiceCallFailed) =>
        /\ response.status = 200
        /\ scorer = "keyword"

\* a failing provider adds no job, what the others found stays in the pool,
\* and the providers after it are still asked
ProviderFailureIsolated ==
    /\ \A i \in 1..Len(calls) :
          calls[i].outcome \in {"raised", "failed"} => calls[i].jobs = 0
    /\ Collected =>
          /\ Len(all_jobs) = JobsFrom("LinkedIn") + JobsFrom("Google Jobs")
                             + JobsFrom("Indeed")
          /\ ProviderCalled("LinkedIn")
          /\ serpapi_scraper => ProviderCalled("Google Jobs")
          /\ (indeed_scraper
              /\ JobsFrom("LinkedIn") + JobsFrom("Google Jobs") < IndeedThreshold)
                => ProviderCalled("Indeed")

\* C5: whichever providers fail or raise, the request does not fail: a
\* failing provider adds no job, the jobs of the others stay in the pool,
\* the remaining providers are asked, and a list is returned
C5_ProviderFailureTolerated ==
    /\ ProviderFailureIsolated
    /\ (Ended /\ \E p \in Providers : ProviderFailed(p)) => response.status = 200

\* C6: when no provider found a job, the request ends with status 200 and
\* an empty relevant_jobs, and neither scorer ran
C6_EmptyPoolSucceeds ==
    (Ended /\ all_jobs = <<>>) =>
        /\ response = [status |-> 200, relevant_jobs |-> <<>>]
        /\ scorer = "none"
        /\ llm_calls = 0

\* every provider that was asked failed, and the request ended
C6_Witness ==
    /\ Ended
    /\ all_jobs = <<>>
    /\ \A p \in Providers : ProviderFailed(p)

\* each time Indeed was asked, it was asked for 3 jobs
IndeedAskedForThree ==
    \A i \in 1..Len(calls) :
        calls[i].provider = "Indeed" => calls[i].max_jobs = IndeedMaxJobs

\* C7: Indeed is asked exactly when LinkedIn and Google Jobs found fewer
\* than 8 jobs, and it is asked for 3 jobs
C7_IndeedIffBelowThreshold ==
    Collected =>
        /\ ProviderCalled("Indeed")
              <=> (JobsFrom("LinkedIn") + JobsFrom("Google Jobs") < IndeedThreshold)
        /\ IndeedAskedForThree

\* C7, amended: Indeed is asked exactly when an Indeed scraper is
\* configured and LinkedIn and Google Jobs found fewer than 8 jobs, and it
\* is asked for 3 jobs
C7_IndeedIffConfiguredAndBelowThreshold ==
    Collected =>
        /\ ProviderCalled("Indeed")
              <=> (indeed_scraper
                   /\ JobsFrom("LinkedIn") + JobsFrom("Google Jobs") < IndeedThreshold)
        /\ IndeedAskedForThree

\* Indeed was asked after 7 jobs were found, the most that still asks it
C7_Witness ==
    /\ Collected
    /\ ProviderCalled("Indeed")
    /\ JobsFrom("LinkedIn") + JobsFrom("Google Jobs") = IndeedThreshold - 1

\* C9: a posting with a missing field does not make the request fail
C9_MalformedFieldTolerated ==
    (Ended /\ UntitledJobInPool) => response.status = 200

(***************************************************************************)
(* Properties of the scorers (ScorerSpec)                                  *)
(***************************************************************************)
\* where in the pool a job was: apply_link tells the jobs of a pool apart
PoolIndex(job) ==
    CHOOSE i \in 1..Len(input.jobs) : input.jobs[i].apply_link = job.apply_link

\* C2: the list a scorer returns is in non-increasing order of
\* relevance_score, and two of its jobs with the same score are in the
\* order the pool had them in
C2_SortedAndStable ==
    (output.done /\ ~output.raised) =>
        \A i, j \in 1..Len(output.jobs) :
            i < j =>
                /\ PyGe(RelevanceKey(output.jobs[i]), RelevanceKey(output.jobs[j]))
                /\ RelevanceKey(output.jobs[i]) = RelevanceKey(output.jobs[j])
                      => PoolIndex(output.jobs[i]) < PoolIndex(output.jobs[j])

\* the text has no "{", no "}", or its last "}" is before its first "{"
NoObjectSubstring(text) ==
    \/ \A i \in 1..Len(text) : text[i] # "{"
    \/ \A i \in 1..Len(text) : text[i] # "}"
    \/ \A i, j \in 1..Len(text) : (text[i] = "{" /\ text[j] = "}") => j < i

\* the text from its first "{" to its last "}"
ObjectSubstring(text) ==
    SubSeq(text, FirstIndex(text, "{"), LastIndex(text, "}"))

Parses(str) == str \in {<<"{", "j", "}">>, <<"{", "}">>}

\* the answer holds an object that parses and whose overall_score float()
\* accepts
AnswerScores(resp) ==
    /\ ~resp.raises
    /\ ~NoObjectSubstring(resp.text)
    /\ ObjectSubstring(resp.text) = <<"{", "j", "}">>
    /\ "overall_score" \in DOMAIN resp.members
    /\ resp.members.overall_score # NotCoercible

\* the answer holds no object substring, or one that does not parse
AnswerUnparseable(resp) ==
    /\ ~resp.raises
    /\ \/ NoObjectSubstring(resp.text)
       \/ ~Parses(ObjectSubstring(resp.text))

\* C4: in filter_relevant_jobs the scored pool has one job for each job of
\* the input, in the input's order; a job whose call raised or whose answer
\* could not be parsed has score 0.0 and a reasoning that tells the
\* failure, and every other job has the score the service gave it
C4_FailedJobAnnotated ==
    (output.done /\ input.fn = "filter_relevant_jobs") =>
        /\ ~output.raised
        /\ Len(output.scored_jobs) = Len(input.jobs)
        /\ \A i \in 1..Len(input.jobs) :
              LET scored == output.scored_jobs[i]
                  resp == input.resps[i]
              IN  /\ scored.apply_link = input.jobs[i].apply_link
                  /\ resp.raises =>
                        /\ scored.relevance_score = 0
                        /\ scored.relevance_reasoning = EvaluationErrorReasoning
                  /\ AnswerUnparseable(resp) =>
                        /\ scored.relevance_score = 0
                        /\ scored.relevance_reasoning = ParseErrorReasoning
                  /\ AnswerScores(resp) =>
                        scored.relevance_score = resp.members.overall_score

\* the call for the first job raised, the answer for the second could not
\* be parsed, the third was scored 0.9 and is the one job returned
C4_Witness ==
    /\ output.done
    /\ input.fn = "filter_relevant_jobs"
    /\ Len(input.jobs) = 3
    /\ input.resps[1] = ServiceRaises
    /\ input.resps[2] = ServiceUnparseable
    /\ input.resps[3] = ServiceScore((9 * Scale) \div 10)
    /\ Len(output.scored_jobs) = 3
    /\ Len(output.jobs) = 1

(***************************************************************************)
(* Properties of the normalizers (NormalizerSpec)                          *)
(***************************************************************************)
JobFields ==
    {"job_title", "company", "location", "description", "experience",
     "salary", "jobNature", "apply_link"}

\* C8: each of the eight fields of a job a normalizer returns is there and
\* is neither None nor empty
C8_FieldsNeverAbsent ==
    output.done =>
        \A f \in JobFields :
            /\ f \in DOMAIN output.job
            /\ output.job[f] # PyNone
            /\ output.job[f] # <<>>

(***************************************************************************)
(* Properties of the work-mode inference (NatureSpec)                      *)
(***************************************************************************)
HybridCue == Contains(Lower(InputText), Hybrid)

RemoteCue == Contains(Lower(InputText), Remote)

\* C10: in each provider's inference from text, a text with a hybrid cue
\* and a remote cue is classified "hybrid"
C10_HybridBeforeRemote ==
    (output.done /\ input.work_from_home # "true" /\ HybridCue /\ RemoteCue) =>
        output.jobNature = Hybrid

\* the text holds "not remote": a remote cue under an explicit negation
RemoteNegated ==
    Contains(Lower(InputText), <<"n","o","t"," ","r","e","m","o","t","e">>)

\* C11: in each provider's inference from text, a text with a remote cue
\* under an explicit negation phrase is never classified "remote"
C11_NegatedRemoteNotRemote ==
    (output.done /\ input.work_from_home # "true" /\ RemoteNegated) =>
        output.jobNature # Remote

\* C12: keyword_score_jobs returns without raising on every list of jobs
\* the providers can hand over and every search criteria
C12_KeywordScorerNeverRaises ==
    (output.done /\ input.fn = "keyword_score_jobs") => ~output.raised

KeywordCallReturned ==
    output.done /\ input.fn = "keyword_score_jobs" /\ ~output.raised

\* the keywords of a list that the text of a job holds, counted as the list
\* holds them
MatchCountIn(keywords, job) ==
    LET text == JobText(job)
    IN  Cardinality({k \in 1..Len(keywords) : Contains(text, keywords[k])})

MatchCount(i) == MatchCountIn(Keywords(input.criteria), input.jobs[i])

EmptyKeywordCriteria ==
    /\ input.criteria.skills = <<>>
    /\ input.criteria.position = <<>>
    /\ input.criteria.jobNature \in {<<>>, NotSpecified}
    /\ input.criteria.location \in {<<>>, NotSpecified}

\* C14: under criteria that yield no keyword, every job has the score 0.5
\* before the random factor, and every returned score is in [0.5, 0.55]
C14_NeutralScoreWithoutKeywords ==
    (KeywordCallReturned /\ EmptyKeywordCriteria) =>
        /\ \A i \in 1..Len(input.jobs) : output.base_scores[i] = Scale \div 2
        /\ Len(output.jobs) = Min(Len(input.jobs), input.max_jobs)
        /\ \A k \in 1..Len(output.jobs) :
               /\ output.jobs[k].relevance_score >= Scale \div 2
               /\ output.jobs[k].relevance_score <= (Scale \div 2) + (Scale \div 20)

\* a call under empty criteria whose jobs are returned with both ends of
\* the range
C14_Witness ==
    /\ KeywordCallReturned
    /\ EmptyKeywordCriteria
    /\ input.criteria.jobNature = <<>>
    /\ \E k, l \in 1..Len(output.jobs) :
           /\ output.jobs[k].relevance_score = Scale \div 2
           /\ output.jobs[l].relevance_score = (Scale \div 2) + (Scale \div 20)

\* the call of the scenario: one job titled "Backend Engineer" that holds
\* neither keyword, under the skills "python, django" alone
BackendScenario ==
    /\ KeywordCallReturned
    /\ input.jobs = BackendPool
    /\ input.criteria = SkillsOnlyCriteria
    /\ input.max_jobs >= 1

\* C15 as stated: in the scenario the job is returned with relevance_score
\* 0.0 and a reasoning that reports 0 matches out of 2 keywords
C15_ScenarioScoreIsZero ==
    BackendScenario =>
        /\ Len(output.jobs) = 1
        /\ output.jobs[1].relevance_score = 0
        /\ output.jobs[1].relevance_reasoning = KeywordReasoning(0, 2)

\* C15: in the scenario the score before the random factor is 0.0, the
\* returned relevance_score is that plus the random factor, within
\* [0, 0.05], and the reasoning reports 0 matches out of 2 keywords; in
\* every call the reasoning of a returned job reports the match count and
\* the keyword count its score was computed from
C15_ScenarioScoreIsJitter ==
    /\ BackendScenario =>
           /\ Len(output.jobs) = 1
           /\ output.base_scores[1] = 0
           /\ output.jobs[1].relevance_score = input.jitters[1]
           /\ output.jobs[1].relevance_score >= 0
           /\ output.jobs[1].relevance_score <= Scale \div 20
           /\ output.jobs[1].relevance_reasoning.kind = "Keyword matching found"
           /\ output.jobs[1].relevance_reasoning.matching = 0
           /\ output.jobs[1].relevance_reasoning.total = 2
    /\ KeywordCallReturned =>
           \A k \in 1..Len(output.jobs) :
               LET i == PoolIndex(output.jobs[k])
                   reasoning == output.jobs[k].relevance_reasoning
               IN  /\ reasoning.matching = MatchCount(i)
                   /\ reasoning.total = Len(Keywords(input.criteria))
                   /\ reasoning.total > 0 =>
                          output.jobs[k].relevance_score =
                              Min(Scale, ((reasoning.matching * Scale)
                                              \div reasoning.total)
                                         + input.jitters[i])

\* the scenario with a random factor above zero
C15_Witness ==
    /\ BackendScenario
    /\ output.jobs[1].relevance_score = Scale \div 20
    /\ output.jobs[1].relevance_reasoning.matching = 0
    /\ output.jobs[1].relevance_reasoning.total = 2

\* C16: every job of a response of search_jobs has a relevance_score within
\* [0, 1], whatever overall_score the service reports and on the keyword
\* fallback path
C16_ScoreWithinUnitInterval ==
    (Ended /\ response.status = 200) =>
        \A k \in 1..Len(response.relevant_jobs) :
            /\ PyGe(response.relevant_jobs[k].relevance_score, 0)
            /\ PyGe(Scale, response.relevant_jobs[k].relevance_score)

\* C17: every search request eventually completes with a response, even if
\* an outbound call never answers
C17_RequestEventuallyCompletes == <>Ended

\* C19: a request scored by the keyword fallback ends with a normal
\* response, and every job of it carries a relevance_reasoning that names
\* keyword matching as the method
C19_FallbackResponseExplained ==
    (Ended /\ scorer = "keyword") =>
        /\ response.status = 200
        /\ \A k \in 1..Len(response.relevant_jobs) :
               response.relevant_jobs[k].relevance_reasoning.kind =
                   "Keyword matching found"

\* C20: in one request generate_content is called for at most 15 jobs; a
\* pool of more than 15 jobs has its first 15 sent, in pool order, and
\* each job sent is the job of exactly one call
C20_FirstFifteenScoredOnce ==
    /\ Len(llm_jobs) <= 15
    /\ llm_calls <= 15
    /\ (Ended /\ scorer = "semantic") =>
           LET n == IF Len(all_jobs) > 15 THEN 15 ELSE Len(all_jobs)
           IN  /\ llm_calls = n
               /\ llm_jobs = [i \in 1..n |-> all_jobs[i].apply_link]
               /\ \A i, j \in 1..Len(llm_jobs) :
                      llm_jobs[i] = llm_jobs[j] => i = j

\* a request whose pool of more than 15 jobs went through the semantic
\* scorer
C20_Witness ==
    /\ Ended
    /\ scorer = "semantic"
    /\ Len(all_jobs) > 15
    /\ Len(llm_jobs) = 15
    /\ llm_jobs[15] = all_jobs[15].apply_link

(***************************************************************************)
(* Properties of the keep-alive service (KeepAliveSpec)                    *)
(***************************************************************************)
InLoop(t) == worker[t] \in {"while", "ping", "sleep"}

\* C18: once stop() has cleared the flag, and unless start() sets it again,
\* every worker thread ends its loop; a worker begins a ping only from a
\* loop test that found the flag set, and one that found it cleared has
\* ended for good; and the join of stop() returns, the worker ended or not,
\* because its timeout can always pass
C18_StopEndsWorker ==
    /\ \A t \in Threads :
           (~running /\ InLoop(t)) ~> (worker[t] = "ended" \/ running)
    /\ [][\A t \in Threads :
             /\ (worker'[t] = "ping" /\ worker[t] # "ping") =>
                    (worker[t] = "while" /\ running)
             /\ (worker[t] = "while" /\ ~running) =>
                    worker'[t] \in {"while", "ended"}
             /\ worker[t] = "ended" => worker'[t] = "ended"]_vars
    /\ (caller = "join") ~> (caller = "idle")
    /\ [](caller = "join" => ENABLED JoinTimesOut)

\* stop() has returned and the worker of the one start() has ended its loop
C18_Witness ==
    /\ ~running
    /\ caller = "idle"
    /\ thread = NoThread
    /\ worker[1] = "ended"
    /\ \A t \in Threads : t # 1 => worker[t] = "unborn"

\* C21: a request that enters the keyword fallback keeps no result of the
\* semantic scorer, and the fallback scores the whole pool: a returned job
\* carries the keyword scorer's reasoning, and every job of the pool, the
\* ones after the fifteenth included, is returned while the cap allows
C21_FallbackScoresWholePool ==
    (Ended /\ scorer = "keyword" /\ response.status = 200) =>
        /\ Len(response.relevant_jobs) =
               (IF Len(all_jobs) > 20 THEN 20 ELSE Len(all_jobs))
        /\ \A k \in 1..Len(response.relevant_jobs) :
               /\ response.relevant_jobs[k].relevance_reasoning.kind =
                      "Keyword matching found"
               /\ \E i \in 1..Len(all_jobs) :
                      all_jobs[i].apply_link =
                          response.relevant_jobs[k].apply_link
        /\ Len(all_jobs) <= 20 =>
               \A i \in 1..Len(all_jobs) :
                   \E k \in 1..Len(response.relevant_jobs) :
                       response.relevant_jobs[k].apply_link =
                           all_jobs[i].apply_link

\* a fallback response that holds the seventeenth job of the pool
C21_Witness ==
    /\ Ended
    /\ scorer = "keyword"
    /\ response.status = 200
    /\ Len(all_jobs) >= 17
    /\ \E k \in 1..Len(response.relevant_jobs) :
           response.relevant_jobs[k].apply_link = all_jobs[17].apply_link

\* the place of a provider in the order of search_jobs
ProviderRank(p) ==
    CASE p = "LinkedIn" -> 1
      [] p = "Google Jobs" -> 2
      [] p = "Indeed" -> 3

\* the links of the first n postings of a provider, in the order it
\* returned them
LinksFrom(letter, n) == [i \in 1..n |-> PostingUrl(letter, i)]

\* C22: the providers are called in the order LinkedIn, Google Jobs,
\* Indeed, each at most once; Indeed is decided on only after the two
\* others are done, on the count of their jobs together; and the pool holds
\* the jobs of LinkedIn, then of Google Jobs, then of Indeed, each in the
\* order the provider returned them
C22_ProvidersInOrder ==
    /\ \A i, j \in 1..Len(calls) :
           i < j => ProviderRank(calls[i].provider) < ProviderRank(calls[j].provider)
    /\ pc = "linkedin" => calls = <<>>
    /\ pc = "google" => ~ProviderCalled("Google Jobs") /\ ~ProviderCalled("Indeed")
    /\ pc = "indeed" => ~ProviderCalled("Indeed")
    /\ ProviderCalled("Indeed") =>
           /\ Collected
           /\ JobsFrom("LinkedIn") + JobsFrom("Google Jobs") < 8
    /\ (Collected /\ indeed_scraper /\ ~ProviderCalled("Indeed")) =>
           JobsFrom("LinkedIn") + JobsFrom("Google Jobs") >= 8
    /\ Collected =>
           [k \in 1..Len(all_jobs) |-> all_jobs[k].apply_link] =
               LinksFrom("l", JobsFrom("LinkedIn"))
               \o LinksFrom("g", JobsFrom("Google Jobs"))
               \o LinksFrom("i", JobsFrom("Indeed"))

\* a pool with jobs of all three providers
C22_Witness ==
    /\ Collected
    /\ JobsFrom("LinkedIn") >= 1
    /\ JobsFrom("Google Jobs") >= 5
    /\ JobsFrom("Indeed") >= 2
    /\ Len(all_jobs) =
           JobsFrom("LinkedIn") + JobsFrom("Google Jobs") + JobsFrom("Indeed")

FilterCallReturned == output.done /\ input.fn = "filter_relevant_jobs"

\* the scored jobs that reach the threshold
Qualifying ==
    {i \in 1..Len(output.scored_jobs) :
        PyGe(output.scored_jobs[i].relevance_score, input.min_score)}

\* the places in scored_jobs of the jobs returned
Returned ==
    {i \in 1..Len(output.scored_jobs) :
        \E k \in 1..Len(output.jobs) :
            output.jobs[k].apply_link = output.scored_jobs[i].apply_link}

\* C23: filter_relevant_jobs returns the first max_jobs of the scored jobs
\* that reach min_score, taken in descending order of score: no job below
\* the threshold, no more than max_jobs, and a job that reaches the
\* threshold is left out only when max_jobs jobs are returned, none of
\* them with a lower score
C23_PrefixOfSortedFiltered ==
    FilterCallReturned =>
        /\ Returned \subseteq Qualifying
        /\ Len(output.jobs) = Cardinality(Returned)
        /\ Len(output.jobs) = Min(input.max_jobs, Cardinality(Qualifying))
        /\ \A i \in Qualifying \ Returned, r \in Returned :
               output.scored_jobs[r].relevance_score >=
                   output.scored_jobs[i].relevance_score

\* the answer to the one job of a call with one job, and the job as scored
OneJobCall == FilterCallReturned /\ Len(input.jobs) = 1 /\ ~input.resps[1].raises

\* C24: an answer with no object substring, or whose substring does not
\* parse, leaves the job with score 0.0 and the reasoning of a parse
\* failure; a parsed object without overall_score gives 0.0; otherwise the
\* score is the overall_score the service reported, whatever its other
\* scores are
C24_ParseFailureScoresZero ==
    OneJobCall =>
        LET resp == input.resps[1]
            job == output.scored_jobs[1]
            parsed == ~NoObjectSubstring(resp.text)
                      /\ Parses(ObjectSubstring(resp.text))
            members == IF ObjectSubstring(resp.text) = <<"{", "}">>
                       THEN EmptyDict ELSE resp.members
        IN  /\ Len(output.scored_jobs) = 1
            /\ ~parsed =>
                   /\ job.relevance_score = 0
                   /\ job.relevance_reasoning.kind = "Error parsing response"
            /\ (parsed /\ "overall_score" \notin DOMAIN members) =>
                   job.relevance_score = 0
            /\ (parsed /\ "overall_score" \in DOMAIN members
                       /\ members.overall_score # NotCoercible) =>
                   job.relevance_score = members.overall_score

\* a job whose answer had its only "}" before its "{"
C24_Witness ==
    /\ OneJobCall
    /\ input.resps[1].text = <<"}", "x", "{">>
    /\ output.scored_jobs[1].relevance_score = 0
    /\ output.scored_jobs[1].relevance_reasoning.kind = "Error parsing response"

\* the keywords of the criteria of the call, each once
KeywordSet ==
    LET keywords == Keywords(input.criteria)
    IN  {keywords[k] : k \in 1..Len(keywords)}

\* C25: the score before the random factor is the number of distinct
\* keywords the job's text holds over the number of distinct keywords, so
\* a keyword the criteria name twice counts once
C25_KeywordsCountedOnce ==
    (KeywordCallReturned /\ KeywordSet # {}) =>
        \A i \in 1..Len(input.jobs) :
            LET text == JobText(input.jobs[i])
                found == {k \in KeywordSet : Contains(text, k)}
            IN  output.base_scores[i] * Cardinality(KeywordSet) =
                    Cardinality(found) * Scale

\* the text holds "onsite" or "on-site"
OnsiteCue ==
    \/ Contains(Lower(InputText), Onsite)
    \/ Contains(Lower(InputText), <<"o","n","-","s","i","t","e">>)

\* C26: in each provider's inference, a text or job-type field with no
\* remote, hybrid or onsite cue is classified "Not specified"
C26_NoCueNotSpecified ==
    (output.done /\ input.work_from_home # "true"
                 /\ ~RemoteCue /\ ~HybridCue /\ ~OnsiteCue) =>
        output.jobNature = NotSpecified

\* C27: the score keyword_score_jobs returns for a job is at least its
\* score before the random factor and at most that plus 0.05, and at most
\* 1.0; so a job is returned before one with a higher score before the
\* random factor only if the two differ by at most 0.05
C27_JitterBounded ==
    KeywordCallReturned =>
        \A k \in 1..Len(output.jobs) :
            LET pre == output.base_scores[PoolIndex(output.jobs[k])]
                s == output.jobs[k].relevance_score
            IN  /\ pre <= s
                /\ s <= pre + (Scale \div 20)
                /\ s <= Scale
                /\ \A l \in (k + 1)..Len(output.jobs) :
                       LET later == output.base_scores[PoolIndex(output.jobs[l])]
                       IN  later > pre => later - pre <= Scale \div 20

\* two jobs whose scores before the random factor are 0.95 and 1.0, the
\* first of them returned first with a random factor of 0.05
C27_Witness ==
    /\ KeywordCallReturned
    /\ \E k, l \in 1..Len(output.jobs) :
           /\ k < l
           /\ output.base_scores[PoolIndex(output.jobs[l])] -
                  output.base_scores[PoolIndex(output.jobs[k])] = Scale \div 20
           /\ output.jobs[k].relevance_score = Scale
           /\ output.jobs[l].relevance_score = Scale

\* C28: at most one worker thread of one KeepAliveService is in its ping
\* at any time, whatever the order of the calls of start() and stop()
C28_OnePingAtATime ==
    Cardinality({t \in Threads : worker[t] = "ping"}) <= 1

\* C29: every job of a response of search_jobs carries a relevance_score
\* and a relevance_reasoning, whichever scorer annotated it
C29_ResponseJobsAnnotated ==
    (Ended /\ response.status = 200) =>
        \A k \in 1..Len(response.relevant_jobs) :
            LET job == response.relevant_jobs[k]
            IN  /\ "relevance_score" \in DOMAIN job
                /\ "relevance_reasoning" \in DOMAIN job
                /\ job.relevance_reasoning # NullReasoning

\* the jobs of the pool whose evaluation by the semantic scorer failed:
\* filter_relevant_jobs annotated them in place
FailedInPool ==
    {i \in 1..Len(all_jobs) :
        /\ "relevance_reasoning" \in DOMAIN all_jobs[i]
        /\ all_jobs[i].relevance_reasoning = EvaluationErrorReasoning}

====
